---- MODULE Spec2Model ----
(***************************************************************************)
(* JWTClient (src/py_client/jwt.py): a client-side holder of a simplejwt   *)
(* access/refresh token pair.  The model follows one credentials file over *)
(* several client processes.  Each process constructs a JWTClient (its     *)
(* __post_init__ loads the file, verifies, refreshes, or logs in) and then *)
(* calls its public methods.  Every HTTP request is a blocking round trip: *)
(* the model has one step that sends it and one that handles the response. *)
(* cred_path is always a path (__post_init__ dereferences it at once).     *)
(***************************************************************************)
EXTENDS Naturals, Sequences, FiniteSets, TLC

VARIABLES
    access,       \* self.access
    refresh,      \* self.refresh
    header_type,  \* self.header_type
    file,         \* the text of cred_path, or NoFile
    pc,           \* where the running method blocks, "idle" between calls
    op,           \* the method running or run last: "__post_init__" or a public one
    log,          \* the requests op has sent, in order, each with its response's status
    resp,         \* the response op received last (r), NoResp before any
    ret,          \* what the public call returned
    err,          \* the exception op raised, NoError if none
    file0,        \* the file as __post_init__ found it, NoFile in a public call
    lastWrite,    \* the text op wrote with write_text, NoFile if it did not
    sessions,     \* processes started so far
    calls,        \* public calls made by this process
    hdr_arg,      \* get_headers' header_type argument, None in any other method
    headers,      \* the mapping get_headers returned, NoHeaders in any other method
    wasCleared,   \* whether op started with both tokens None and no file
    saved         \* the pair in memory when the file's text was written, NoPair
                  \* for a file no client wrote

vars == <<access, refresh, header_type, file, pc, op, log, resp, ret, err,
          file0, lastWrite, sessions, calls, hdr_arg, headers, wasCleared, saved>>

\* ------------------------------------------------------------------ bounds
MaxSessions == 2
MaxCalls == 2

\* ------------------------------------------------------------ Python values
None == "<None>"
Absent == "<absent>"
Tokens == {"t1", "t2"}
PyStr == {""} \cup Tokens
PyVals == {None} \cup PyStr
HeaderTypes == {"Bearer", "JWT"}
\* JWTClient(access=..., refresh=...): neither, both, or one of the two given
Given == {<<None, None>>, <<"t1", "t2">>, <<"t1", None>>, <<None, "t2">>}

\* The one status the client takes for success; 204 and 401 stand for the rest.
HTTP_OK == 200
Statuses == {HTTP_OK, 204, 401}

\* bool(v) of an attribute value: None and "" are falsy
Truthy(v) == v \notin {None, ""}

\* f"{v}"
fstr(v) == IF v = None THEN "None" ELSE v

\* A mapping with the keys 'access' and 'refresh', each possibly missing
Dict(a, r) == [kind |-> "dict", mention |-> FALSE, access |-> a, refresh |-> r]
\* Any other value json.loads can give: None, a list, a str, a number.
\* mention: whether 'access' in v is true of the list or the str.
NonDict(k, m) == [kind |-> k, mention |-> m, access |-> Absent, refresh |-> Absent]
Raised(e) == NonDict(e, FALSE)
Dicts == {Dict(a, r) : a \in {Absent} \cup PyVals, r \in {Absent} \cup PyVals}

\* data.get(k)
dict_get(d, k) == IF d[k] = Absent THEN None ELSE d[k]

\* ---------------------------------------------------------------- JSON text
Quote(s) == "\"" \o s \o "\""
Literal(v) == IF v = Absent THEN Absent ELSE IF v = None THEN "null" ELSE Quote(v)
Unliteral(l) ==
    IF l = Absent THEN Absent
    ELSE IF l = "null" THEN None
    ELSE CHOOSE s \in PyStr : Quote(s) = l

Text(k, m, a, r) == [kind |-> k, mention |-> m, access |-> a, refresh |-> r]
NoFile == Text("nofile", FALSE, Absent, Absent)
Garbage == Text("garbage", FALSE, Absent, Absent)
Literals == {Literal(v) : v \in {Absent} \cup PyVals}
ObjectTexts == {Text("object", FALSE, a, r) : a \in Literals, r \in Literals}
Texts ==
    ObjectTexts \cup {Garbage}
    \cup {Text("null", FALSE, Absent, Absent), Text("number", FALSE, Absent, Absent)}
    \cup {Text(k, m, Absent, Absent) : k \in {"array", "string"}, m \in BOOLEAN}

\* json.dumps(data) that puts each token under the other's key
json_dumps_swapped(d) == Text("object", FALSE, Literal(d.refresh), Literal(d.access))

\* json.dumps(data) of a mapping
json_dumps(d) == Text("object", FALSE, Literal(d.access), Literal(d.refresh))

\* json.loads(text), r.json()
json_loads(t) ==
    CASE t.kind = "object" -> Dict(Unliteral(t.access), Unliteral(t.refresh))
      [] t.kind = "null"   -> NonDict("None", FALSE)
      [] t.kind = "number" -> NonDict("num", FALSE)
      [] t.kind = "array"  -> NonDict("list", t.mention)
      [] t.kind = "string" -> NonDict("str", t.mention)
      [] OTHER             -> Raised("JSONDecodeError")

\* ------------------------------------------------------------------- HTTP
Response(st, b) == [status |-> st, body |-> b]
NoResp == Response(0, Garbage)
\* The body matters to the client on a 200 alone.
Responses ==
    {Response(HTTP_OK, b) : b \in Texts}
    \cup {Response(st, Garbage) : st \in Statuses \ {HTTP_OK}}

NoHeaders == {}
\* A request as sent: status is 0 until its response is in.
Request(c, h, s) == [call |-> c, auth |-> h, sent |-> s, status |-> 0]

NoError == "<no error>"
NoPair == <<Absent, Absent>>

\* ---------------------------------------------------------------- methods
\* The object's attributes and its file, as the methods below change them.
Self == [access |-> access, refresh |-> refresh, file |-> file, lastWrite |-> lastWrite]

\* What a method leaves behind: the attributes and file, the value it returned
\* ("" for None) and the exception it raised.
Outcome(s, v, e) ==
    [access |-> s.access, refresh |-> s.refresh, file |-> s.file,
     lastWrite |-> s.lastWrite, ret |-> v, err |-> e]

\* get_headers(header_type) that ignores its argument
get_headers_own_type(s, arg, own) ==
    IF ~Truthy(s.access) THEN NoHeaders
    ELSE {<<"Authorization", own \o " " \o s.access>>}

\* get_headers(header_type): {} or {"Authorization": "<type> <token>"}
get_headers(s, arg, own) ==
    LET _type == IF Truthy(arg) THEN arg ELSE own
        token == s.access
    IN  IF ~Truthy(token) THEN NoHeaders
        ELSE {<<"Authorization", _type \o " " \o token>>}

\* write_creds(data) without the check that both tokens are there
write_creds_unchecked(s, data) ==
    [access |-> dict_get(data, "access"), refresh |-> dict_get(data, "refresh"),
     file |-> json_dumps(data), lastWrite |-> json_dumps(data)]

\* write_creds(data), data a mapping
write_creds(s, data) ==
    LET a == dict_get(data, "access")
        r == dict_get(data, "refresh")
    IN  IF Truthy(a) /\ Truthy(r)
        THEN [access |-> a, refresh |-> r, file |-> json_dumps(data),
              lastWrite |-> json_dumps(data)]
        ELSE [s EXCEPT !.access = a, !.refresh = r]

\* clear_tokens() that forgets the refresh token
clear_tokens_keeps_refresh(s) == [s EXCEPT !.access = None, !.file = NoFile]

\* clear_tokens() that forgets the file
clear_tokens_memory_only(s) == [s EXCEPT !.access = None, !.refresh = None]

\* clear_tokens()
clear_tokens(s) ==
    [s EXCEPT !.access = None, !.refresh = None,
              !.file = IF s.file # NoFile THEN NoFile ELSE s.file]

\* verify_token() with the comparison inverted
verify_token_inverted(r) == r.status # HTTP_OK

\* verify_token(), once the response r is in
verify_token(r) == r.status = HTTP_OK

\* 'access' in refresh_data
contains_access(v) ==
    CASE v.kind = "dict" -> v.access # Absent
      [] v.kind \in {"list", "str"} -> v.mention
      [] OTHER -> FALSE

\* perform_auth() that clears the tokens before it raises, as perform_refresh does
perform_auth_clearing(s, r) ==
    IF r.status # HTTP_OK
    THEN Outcome(clear_tokens(s), "", "Exception: Access not granted")
    ELSE LET data == json_loads(r.body)
         IN  IF data.kind = "JSONDecodeError" THEN Outcome(s, "", "JSONDecodeError")
             ELSE IF data.kind # "dict" THEN Outcome(s, "", "AttributeError")
             ELSE Outcome(write_creds(s, data), "", NoError)

\* perform_auth(), from the response r on
perform_auth(s, r) ==
    IF r.status # HTTP_OK THEN Outcome(s, "", "Exception: Access not granted")
    ELSE LET data == json_loads(r.body)
         IN  IF data.kind = "JSONDecodeError" THEN Outcome(s, "", "JSONDecodeError")
             ELSE IF data.kind # "dict" THEN Outcome(s, "", "AttributeError")
             ELSE Outcome(write_creds(s, data), "", NoError)

\* perform_refresh() without its last line, return True: it returns None,
\* which __post_init__ takes for a failure
perform_refresh_no_return(s, r) ==
    IF r.status # HTTP_OK THEN Outcome(clear_tokens(s), "False", NoError)
    ELSE LET refresh_data == json_loads(r.body)
         IN  IF refresh_data.kind = "JSONDecodeError"
             THEN Outcome(s, "", "JSONDecodeError")
             ELSE IF refresh_data.kind \in {"None", "num"}
             THEN Outcome(s, "", "TypeError")
             ELSE IF ~contains_access(refresh_data)
             THEN Outcome(clear_tokens(s), "False", NoError)
             ELSE IF refresh_data.kind # "dict"
             THEN Outcome(s, "", "AttributeError")
             ELSE Outcome(write_creds(s, Dict(dict_get(refresh_data, "access"), s.refresh)),
                          "False", NoError)

\* perform_refresh() that stores the response's refresh token, not its own
perform_refresh_rotating(s, r) ==
    IF r.status # HTTP_OK THEN Outcome(clear_tokens(s), "False", NoError)
    ELSE LET refresh_data == json_loads(r.body)
         IN  IF refresh_data.kind = "JSONDecodeError"
             THEN Outcome(s, "", "JSONDecodeError")
             ELSE IF refresh_data.kind \in {"None", "num"}
             THEN Outcome(s, "", "TypeError")
             ELSE IF ~contains_access(refresh_data)
             THEN Outcome(clear_tokens(s), "False", NoError)
             ELSE IF refresh_data.kind # "dict"
             THEN Outcome(s, "", "AttributeError")
             ELSE Outcome(write_creds(s, Dict(dict_get(refresh_data, "access"),
                                              dict_get(refresh_data, "refresh"))),
                          "True", NoError)

\* perform_refresh(), from the response r on
perform_refresh(s, r) ==
    IF r.status # HTTP_OK THEN Outcome(clear_tokens(s), "False", NoError)
    ELSE LET refresh_data == json_loads(r.body)
         IN  IF refresh_data.kind = "JSONDecodeError"
             THEN Outcome(s, "", "JSONDecodeError")
             ELSE IF refresh_data.kind \in {"None", "num"}
             THEN Outcome(s, "", "TypeError")
             ELSE IF ~contains_access(refresh_data)
             THEN Outcome(clear_tokens(s), "False", NoError)
             ELSE IF refresh_data.kind # "dict"
             THEN Outcome(s, "", "AttributeError")
             ELSE Outcome(write_creds(s, Dict(dict_get(refresh_data, "access"), s.refresh)),
                          "True", NoError)

\* list() that clears the tokens on a response that is not a 200, as
\* perform_refresh does
list_clearing(s, r) ==
    IF r.status # HTTP_OK
    THEN Outcome(clear_tokens(s), "", "Exception: Request not complete")
    ELSE LET data == json_loads(r.body)
         IN  IF data.kind = "JSONDecodeError" THEN Outcome(s, "", "JSONDecodeError")
             ELSE Outcome(s, "data", NoError)

\* list(), from the response r on: the parsed body, "data", is what it returns
list(s, r) ==
    IF r.status # HTTP_OK THEN Outcome(s, "", "Exception: Request not complete")
    ELSE LET data == json_loads(r.body)
         IN  IF data.kind = "JSONDecodeError" THEN Outcome(s, "", "JSONDecodeError")
             ELSE Outcome(s, "data", NoError)

\* ------------------------------------------------------------ the requests
base_endpoint == "http://localhost:8000/api"
DefaultLimit == 3
Limits == {DefaultLimit, 5}
\* The endpoint argument of list(): None, the next page of this API, a URL of
\* another host.
NextPage == base_endpoint \o "/products/?page=2"
Endpoints == {None, NextPage, "http://example.com/products/"}
\* self.base_endpoint not in str(endpoint)
not_in_base(endpoint) == endpoint # NextPage
list_url(endpoint, limit) ==
    IF endpoint = None \/ not_in_base(endpoint)
    THEN base_endpoint \o "/products/?limit=" \o ToString(limit)
    ELSE endpoint
\* What a resource view answers: on a 200 a page of results, a list, or no JSON.
ListResponses ==
    {Response(HTTP_OK, b) : b \in {Text("object", FALSE, Absent, Absent),
                                    Text("array", FALSE, Absent, Absent), Garbage}}
    \cup {Response(st, Garbage) : st \in Statuses \ {HTTP_OK}}
\* The Refresh request sent without headers
RefreshRequest_no_auth(s) == Request("Refresh", NoHeaders, fstr(s.refresh))

LoginRequest == Request("Login", NoHeaders, "username, password")
VerifyRequest(s) == Request("Verify", NoHeaders, fstr(s.access))
RefreshRequest(s) == Request("Refresh", get_headers(s, None, header_type), fstr(s.refresh))
ListRequest(s, endpoint, limit) ==
    Request("List", get_headers(s, None, header_type), list_url(endpoint, limit))

Send(q) == log' = Append(log, q)
Receive(r) ==
    /\ resp' = r
    /\ log' = [log EXCEPT ![Len(log)].status = r.status]

InInit == op = "__post_init__"

Install(o) ==
    /\ access' = o.access
    /\ refresh' = o.refresh
    /\ file' = o.file
    /\ lastWrite' = o.lastWrite
    /\ saved' = IF o.file = NoFile THEN NoPair
                ELSE IF o.lastWrite # NoFile /\ o.file = o.lastWrite
                THEN <<o.access, o.refresh>>
                ELSE saved

\* The running method ends: __post_init__ that raises leaves no object behind,
\* a public call that raises leaves the object to its caller.
Finish(v, e) ==
    /\ pc' = IF e # NoError /\ InInit THEN "failed" ELSE "idle"
    /\ err' = e
    /\ ret' = IF InInit THEN ret ELSE v

\* --------------------------------------------------------------- __post_init__
\* The data __post_init__ reads: None when the text does not parse.
load_creds(t) ==
    LET data == json_loads(t)
    IN  IF data.kind = "JSONDecodeError" THEN NonDict("None", FALSE) ELSE data

\* __post_init__ without its last else: no file, no login
post_init_no_else(s) ==
    IF s.file # NoFile
    THEN LET data == load_creds(s.file)
         IN  IF data.kind = "None" THEN Outcome(clear_tokens(s), "login", NoError)
             ELSE IF data.kind # "dict" THEN Outcome(s, "", "AttributeError")
             ELSE Outcome([s EXCEPT !.access = dict_get(data, "access"),
                                    !.refresh = dict_get(data, "refresh")],
                          "verify", NoError)
    ELSE Outcome(s, "", NoError)

\* __post_init__ up to its first request: the attributes and file then, and
\* what it does next ("login", "verify", or the exception it raises).
post_init(s) ==
    IF s.file # NoFile
    THEN LET data == load_creds(s.file)
         IN  IF data.kind = "None" THEN Outcome(clear_tokens(s), "login", NoError)
             ELSE IF data.kind # "dict" THEN Outcome(s, "", "AttributeError")
             ELSE Outcome([s EXCEPT !.access = dict_get(data, "access"),
                                    !.refresh = dict_get(data, "refresh")],
                          "verify", NoError)
    ELSE Outcome(s, "login", NoError)

PostInit ==
    /\ pc = "start"
    /\ LET o == post_init(Self)
       IN  /\ Install(o)
           /\ CASE o.ret = "login"  -> Send(LoginRequest) /\ pc' = "login" /\ err' = err
                [] o.ret = "verify" -> Send(VerifyRequest(o)) /\ pc' = "verify" /\ err' = err
                [] OTHER            -> log' = log /\ pc' = (IF o.err # NoError THEN "failed" ELSE "idle")
                                       /\ err' = o.err
    /\ UNCHANGED <<header_type, op, resp, ret, file0, sessions, calls, hdr_arg, headers,
                   wasCleared>>

\* verify_token() returns; __post_init__ goes on to perform_refresh()
VerifyResponse ==
    /\ pc = "verify"
    /\ \E r \in {Response(st, Garbage) : st \in Statuses} :
        /\ resp' = r
        /\ IF InInit /\ ~verify_token(r)
           THEN /\ log' = Append([log EXCEPT ![Len(log)].status = r.status],
                                 RefreshRequest(Self))
                /\ pc' = "refresh"
                /\ UNCHANGED <<ret, err>>
           ELSE /\ Receive(r)
                /\ Finish(IF verify_token(r) THEN "True" ELSE "False", NoError)
    /\ UNCHANGED <<access, refresh, header_type, file, op, file0, lastWrite,
                   sessions, calls, hdr_arg, headers, wasCleared, saved>>

\* perform_refresh() returns; __post_init__ clears and goes on to perform_auth()
RefreshResponse ==
    /\ pc = "refresh"
    /\ \E r \in Responses :
        LET o == perform_refresh(Self, r)
        IN  /\ resp' = r
            /\ IF InInit /\ o.err = NoError /\ o.ret = "False"
               THEN /\ Install(clear_tokens(o))
                    /\ log' = Append([log EXCEPT ![Len(log)].status = r.status],
                                     LoginRequest)
                    /\ pc' = "login"
                    /\ UNCHANGED <<ret, err>>
               ELSE /\ Install(o)
                    /\ Receive(r)
                    /\ Finish(o.ret, o.err)
    /\ UNCHANGED <<header_type, op, file0, sessions, calls, hdr_arg, headers, wasCleared>>

\* perform_auth() returns or raises
LoginResponse ==
    /\ pc = "login"
    /\ \E r \in Responses :
        LET o == perform_auth(Self, r)
        IN  /\ Receive(r)
            /\ Install(o)
            /\ Finish(o.ret, o.err)
    /\ UNCHANGED <<header_type, op, file0, sessions, calls, hdr_arg, headers, wasCleared>>

\* list() returns the parsed body or raises
ListResponse ==
    /\ pc = "list"
    /\ \E r \in ListResponses :
        LET o == list(Self, r)
        IN  /\ Receive(r)
            /\ Install(o)
            /\ Finish(o.ret, o.err)
    /\ UNCHANGED <<header_type, op, file0, sessions, calls, hdr_arg, headers, wasCleared>>

\* ---------------------------------------------------------------- public calls
Idle == pc = "idle" /\ calls < MaxCalls

\* A public call starts: what the last method left to look at is gone.
Enter(m) ==
    /\ op' = m
    /\ calls' = calls + 1
    /\ err' = NoError
    /\ ret' = ""
    /\ resp' = NoResp
    /\ file0' = NoFile
    /\ wasCleared' = (access = None /\ refresh = None /\ file = NoFile)

\* The call is not get_headers.
NoHeadersCall == hdr_arg' = None /\ headers' = NoHeaders

CallVerify ==
    /\ Idle
    /\ Enter("verify_token")
    /\ NoHeadersCall
    /\ log' = <<VerifyRequest(Self)>>
    /\ pc' = "verify"
    /\ lastWrite' = NoFile
    /\ UNCHANGED <<access, refresh, header_type, file, sessions, saved>>

CallRefresh ==
    /\ Idle
    /\ Enter("perform_refresh")
    /\ NoHeadersCall
    /\ log' = <<RefreshRequest(Self)>>
    /\ pc' = "refresh"
    /\ lastWrite' = NoFile
    /\ UNCHANGED <<access, refresh, header_type, file, sessions, saved>>

CallAuth ==
    /\ Idle
    /\ Enter("perform_auth")
    /\ NoHeadersCall
    /\ log' = <<LoginRequest>>
    /\ pc' = "login"
    /\ lastWrite' = NoFile
    /\ UNCHANGED <<access, refresh, header_type, file, sessions, saved>>

CallWriteCreds ==
    /\ Idle
    /\ Enter("write_creds")
    /\ NoHeadersCall
    /\ \E data \in Dicts : Install(write_creds([Self EXCEPT !.lastWrite = NoFile], data))
    /\ log' = <<>>
    /\ UNCHANGED <<header_type, pc, sessions>>

CallClearTokens ==
    /\ Idle
    /\ Enter("clear_tokens")
    /\ NoHeadersCall
    /\ Install(clear_tokens([Self EXCEPT !.lastWrite = NoFile]))
    /\ log' = <<>>
    /\ UNCHANGED <<header_type, pc, sessions>>

HeaderArgs == {None, "", "Token"}

CallGetHeaders ==
    /\ Idle
    /\ Enter("get_headers")
    /\ \E a \in HeaderArgs :
        /\ hdr_arg' = a
        /\ headers' = get_headers(Self, a, header_type)
    /\ log' = <<>>
    /\ lastWrite' = NoFile
    /\ UNCHANGED <<access, refresh, header_type, file, pc, sessions, saved>>

CallList ==
    /\ Idle
    /\ Enter("list")
    /\ NoHeadersCall
    /\ \E endpoint \in Endpoints, limit \in Limits :
        log' = <<ListRequest(Self, endpoint, limit)>>
    /\ pc' = "list"
    /\ lastWrite' = NoFile
    /\ UNCHANGED <<access, refresh, header_type, file, sessions, saved>>

\* ------------------------------------------------------------ the next process
\* JWTClient(access=..., refresh=..., header_type=...) in a new process, which
\* finds the file as the last one left it.
NewClient ==
    /\ pc \in {"idle", "failed"}
    /\ sessions < MaxSessions
    /\ sessions' = sessions + 1
    /\ \E g \in Given : access' = g[1] /\ refresh' = g[2]
    /\ header_type' \in HeaderTypes
    /\ pc' = "start"
    /\ op' = "__post_init__"
    /\ log' = <<>>
    /\ resp' = NoResp
    /\ ret' = ""
    /\ err' = NoError
    /\ file0' = file
    /\ calls' = 0
    /\ lastWrite' = NoFile
    /\ file' = file
    /\ hdr_arg' = None
    /\ headers' = NoHeaders
    /\ wasCleared' = (access' = None /\ refresh' = None /\ file = NoFile)
    /\ saved' = saved

Init ==
    /\ \E g \in Given : access = g[1] /\ refresh = g[2]
    /\ header_type \in HeaderTypes
    /\ file \in Texts \cup {NoFile}
    /\ pc = "start"
    /\ op = "__post_init__"
    /\ log = <<>>
    /\ resp = NoResp
    /\ ret = ""
    /\ err = NoError
    /\ file0 = file
    /\ lastWrite = NoFile
    /\ sessions = 1
    /\ calls = 0
    /\ hdr_arg = None
    /\ headers = NoHeaders
    /\ wasCleared = (access = None /\ refresh = None /\ file = NoFile)
    /\ saved = NoPair

Next ==
    \/ PostInit
    \/ VerifyResponse
    \/ RefreshResponse
    \/ LoginResponse
    \/ ListResponse
    \/ CallVerify
    \/ CallRefresh
    \/ CallAuth
    \/ CallWriteCreds
    \/ CallClearTokens
    \/ CallGetHeaders
    \/ CallList
    \/ NewClient

Spec == Init /\ [][Next]_vars

\* ======================================================================
\* Properties
\* ======================================================================
Count(c) == Cardinality({i \in 1..Len(log) : log[i].call = c})
Cleared == access = None /\ refresh = None /\ file = NoFile
\* The exchange log[i] is a call c whose response is in.
Answered(i, c) == Len(log) >= i /\ log[i].call = c /\ log[i].status # 0
\* resp is the response to the Refresh request log[2] of __post_init__.
RefreshJustAnswered ==
    /\ InInit
    /\ Answered(1, "Verify") /\ log[1].status # HTTP_OK
    /\ Answered(2, "Refresh")
    /\ Len(log) = 2 \/ (Len(log) = 3 /\ log[3].status = 0)
\* The body of resp is a JSON object with a member 'access'.
BodyHasAccessField == resp.body.kind = "object" /\ resp.body.access # Absent

\* C1 (as claimed): when __post_init__ starts from a file that parses as JSON,
\* Verify answers non-200 and Refresh answers non-200 or 200 with no 'access'
\* field in the body, then both tokens are None, the file is gone and one Login
\* request, sent after the clearing, is the only Login request.
C1_Original ==
    (/\ RefreshJustAnswered
     /\ file0 \notin {NoFile, Garbage}
     /\ resp.status # HTTP_OK \/ ~BodyHasAccessField)
    => (/\ pc = "login"
        /\ Cleared
        /\ Len(log) = 3 /\ log[3].call = "Login"
        /\ Count("Login") = 1)

\* C1, for the failures perform_refresh reports by returning False: a non-200
\* status, or a 200 whose body is an object, a list or a string without 'access'.
C1_ReportedFailure ==
    (/\ RefreshJustAnswered
     /\ file0 \notin {NoFile, Garbage}
     /\ \/ resp.status # HTTP_OK
        \/ /\ resp.body.kind \in {"object", "array", "string"}
           /\ ~BodyHasAccessField /\ ~resp.body.mention)
    => (/\ pc = "login"
        /\ Cleared
        /\ Len(log) = 3 /\ log[3].call = "Login"
        /\ Count("Login") = 1)

\* __post_init__ ended with perform_refresh, which got a 200 whose body is an
\* object with a member 'access'.
RefreshAccepted ==
    /\ RefreshJustAnswered
    /\ Len(log) = 2
    /\ resp.status = HTTP_OK /\ BodyHasAccessField
NewAccess == dict_get(json_loads(resp.body), "access")
OldRefresh == dict_get(json_loads(file0), "refresh")
FileRefresh == dict_get(json_loads(file), "refresh")
FileAccess == dict_get(json_loads(file), "access")

\* C2 (as claimed): when Verify answers non-200 and Refresh answers 200 with an
\* 'access' field, the file afterwards holds the refresh token it held before
\* and the access token of the refresh response.
C2_Original ==
    RefreshAccepted
    => (/\ file.kind = "object"
        /\ file.refresh = file0.refresh
        /\ file.access = resp.body.access)

\* C2 (amended): in that case the file afterwards holds the refresh token it
\* held before; when the new access token and the file's refresh token are both
\* non-empty, the file holds exactly the new access token with the old refresh
\* token, and so does the client, whose header is "<header_type> <new>";
\* otherwise the file is as it was.
C2_RefreshKept ==
    RefreshAccepted
    => (/\ pc = "idle"
        /\ file.kind = "object"
        /\ FileRefresh = OldRefresh
        /\ IF Truthy(NewAccess) /\ Truthy(OldRefresh)
           THEN /\ file = json_dumps(Dict(NewAccess, OldRefresh))
                /\ FileAccess = NewAccess
                /\ access = NewAccess /\ refresh = OldRefresh
                /\ get_headers(Self, None, header_type)
                     = {<<"Authorization", header_type \o " " \o NewAccess>>}
           ELSE file = file0)

\* A refresh that replaced the file's access token and kept its refresh token.
C2_Witness ==
    /\ RefreshAccepted
    /\ pc = "idle"
    /\ FileAccess = "t2" /\ dict_get(json_loads(file0), "access") = "t1"
    /\ FileRefresh = OldRefresh

\* C3: when the Verify request of __post_init__ is answered 200, __post_init__
\* is over, and it sent neither a Refresh nor a Login request.
C3_VerifiedNoFallback ==
    (InInit /\ Answered(1, "Verify") /\ log[1].status = HTTP_OK)
    => (/\ pc = "idle"
        /\ Len(log) = 1
        /\ Count("Refresh") = 0
        /\ Count("Login") = 0)

C3_Witness ==
    /\ InInit /\ Answered(1, "Verify") /\ log[1].status = HTTP_OK
    /\ file0.kind = "object"
    /\ pc = "idle"

\* C4: when __post_init__ finds no file, it sends one Login request, and that is
\* the only request it sends: no Verify, no Refresh.
C4_NoFileLoginOnce ==
    (InInit /\ file0 = NoFile)
    => (/\ Count("Verify") = 0
        /\ Count("Refresh") = 0
        /\ pc = "start" \/ (Len(log) = 1 /\ Count("Login") = 1)
        /\ pc \in {"start", "login", "idle", "failed"})

C4_Witness ==
    /\ InInit /\ file0 = NoFile
    /\ pc = "idle"
    /\ Count("Login") = 1 /\ log[1].status = HTTP_OK

\* C5: when __post_init__ finds a file that is not JSON, it sends a Login
\* request and no other; while that request is out, both tokens are None and
\* the file is gone.
C5_InvalidJsonClearsThenLogin ==
    (InInit /\ file0 = Garbage)
    => (/\ Count("Verify") = 0
        /\ Count("Refresh") = 0
        /\ pc = "start" \/ (Len(log) = 1 /\ log[1].call = "Login")
        /\ pc = "login" => Cleared)

C5_Witness ==
    /\ InInit /\ file0 = Garbage
    /\ pc = "login"
    /\ Cleared

\* C6 (as claimed): whenever __post_init__ returns without raising, the client
\* holds a non-empty access token.
C6_Original == (InInit /\ pc = "idle") => Truthy(access)

\* This step ran write_creds: called by itself, or reached by perform_auth or
\* perform_refresh.
WriteCredsRan ==
    \/ op' = "write_creds" /\ calls' = calls + 1
    \/ pc = "login" /\ pc' = "idle" /\ err' = NoError
    \/ pc = "refresh" /\ pc' = "idle" /\ err' = NoError /\ (InInit \/ ret' = "True")

\* A text with both keys, each a non-empty value.
FullPair(t) ==
    /\ t.kind = "object"
    /\ t.access # Absent /\ Truthy(Unliteral(t.access))
    /\ t.refresh # Absent /\ Truthy(Unliteral(t.refresh))

\* C7: every text a method writes to the file holds 'access' and 'refresh', both
\* non-empty; and a run of write_creds that leaves access or refresh empty or
\* None writes nothing: the file is as it was.
C7_PersistOnlyFullPairs ==
    /\ [](lastWrite # NoFile => FullPair(lastWrite) /\ file = lastWrite)
    /\ [][(WriteCredsRan /\ (~Truthy(access') \/ ~Truthy(refresh')))
          => (file' = file /\ lastWrite' = NoFile)]_vars

\* write_creds, given a mapping without a usable refresh token, left a file
\* written earlier in place.
C7_Witness ==
    /\ op = "write_creds" /\ pc = "idle"
    /\ Truthy(access) /\ ~Truthy(refresh)
    /\ lastWrite = NoFile
    /\ FullPair(file)

\* C8 (as claimed): after any method has returned, access = None implies
\* refresh = None.
C8_Original == (pc = "idle" /\ err = NoError) => (access = None => refresh = None)

\* The text is a credential object: a JSON object with both keys.
WellFormed(t) == t.kind = "object" /\ t.access # Absent /\ t.refresh # Absent

\* C9 (as claimed): when the file is missing or is not a credential object,
\* __post_init__ ends only after sending a Login request and nothing else, so
\* that no error but Login's can leave it.
C9_Original ==
    (InInit /\ ~WellFormed(file0) /\ pc \in {"idle", "failed"})
    => (Len(log) = 1 /\ log[1].call = "Login")

\* C9 for the cases the code does treat as no credentials: no file, text that
\* does not parse, JSON null.
C9_MissingOrUnparseable ==
    (InInit /\ file0.kind \in {"nofile", "garbage", "null"} /\ pc \in {"idle", "failed"})
    => (Len(log) = 1 /\ log[1].call = "Login")

\* The step is perform_auth getting a response that is not a 200.
LoginRefused == pc = "login" /\ pc' # "login" /\ resp'.status # HTTP_OK

\* C10: a Login response that is not a 200 makes perform_auth raise, to the
\* caller of perform_auth or out of __post_init__, with the tokens, the file and
\* the requests sent as they were when the Login request went out; and a
\* __post_init__ that raised sends nothing more.
C10_LoginFailurePropagates ==
    /\ [][LoginRefused
          => (/\ err' = "Exception: Access not granted"
              /\ pc' = (IF InInit THEN "failed" ELSE "idle")
              /\ access' = access /\ refresh' = refresh /\ file' = file
              /\ lastWrite' = lastWrite
              /\ Len(log') = Len(log))]_vars
    /\ [][pc = "failed" => (pc' = "start" /\ log' = <<>> /\ sessions' = sessions + 1)]_vars

\* perform_auth raised on a client that holds tokens and a file, and they remain.
C10_Witness ==
    /\ op = "perform_auth" /\ pc = "idle"
    /\ err = "Exception: Access not granted"
    /\ log[1].call = "Login" /\ log[1].status = 401
    /\ Truthy(access) /\ Truthy(refresh)
    /\ FullPair(file)

\* A public call of perform_refresh has returned or raised; resp is its response.
RefreshCallAnswered == op = "perform_refresh" /\ pc = "idle" /\ Answered(1, "Refresh")
RefreshRefused == resp.status # HTTP_OK \/ ~BodyHasAccessField

\* C11 (as claimed): perform_refresh returns False exactly when the status is
\* not 200 or the body has no 'access' field; it raises nothing then; and when
\* it returns False both tokens are None and the file is gone.
C11_Original ==
    RefreshCallAnswered
    => (/\ (ret = "False") <=> RefreshRefused
        /\ RefreshRefused => err = NoError
        /\ ret = "False" => Cleared)

\* C11, the part the code keeps: False is returned only for a refused refresh,
\* always for a non-200 status, and always leaves the client cleared.
C11_FalseMeansCleared ==
    RefreshCallAnswered
    => (/\ ret = "False" => (RefreshRefused /\ Cleared /\ err = NoError)
        /\ resp.status # HTTP_OK => ret = "False")

\* The scheme get_headers uses for the argument a: a itself unless it is None
\* or empty.
SchemeFor(a) == IF a \in {None, ""} THEN header_type ELSE a
HeadersFor(a) ==
    IF access \in {None, ""} THEN {}
    ELSE {<<"Authorization", SchemeFor(a) \o " " \o access>>}

C13_RoundTrip ==
    saved # NoPair
    => (/\ json_loads(file) = Dict(saved[1], saved[2])
        /\ (InInit /\ pc = "verify")
           => (/\ access = saved[1] /\ refresh = saved[2]
               /\ Len(log) = 1 /\ log[1].sent = saved[1]))

\* A second process has loaded the pair t1/t2 the first one wrote.
C13_Witness ==
    /\ InInit /\ pc = "verify" /\ sessions = 2
    /\ saved = <<"t1", "t2">>
    /\ access = "t1" /\ refresh = "t2"

\* The step is a call of clear_tokens.
ClearCall == pc = "idle" /\ calls' = calls + 1 /\ op' = "clear_tokens"

\* C14: clear_tokens leaves both tokens None and no file, raises nothing, and
\* changes nothing on a client that is cleared already; a second clear_tokens
\* gives what the first gave.
C14_ClearIdempotent ==
    /\ [](clear_tokens(clear_tokens(Self)) = clear_tokens(Self))
    /\ [][ClearCall
          => (/\ access' = None /\ refresh' = None /\ file' = NoFile
              /\ err' = NoError /\ pc' = "idle"
              /\ Cleared => (access' = access /\ refresh' = refresh /\ file' = file))]_vars

\* clear_tokens ran as the second call on a client that was cleared already.
C14_Witness ==
    /\ op = "clear_tokens" /\ pc = "idle" /\ calls = 2
    /\ wasCleared
    /\ Cleared /\ err = NoError

Rank(c) == CASE c = "Verify" -> 1 [] c = "Refresh" -> 2 [] c = "Login" -> 3 [] OTHER -> 4

\* C15: the requests of one __post_init__ are Verify, Refresh and Login, each
\* at most once and in that order; Refresh only right after a Verify answered
\* non-200; Login either first, when there is no file or none that parses to
\* data, or right after a Refresh that was refused.
C15_NoRetryInOrder ==
    InInit
    => (/\ \A c \in {"Verify", "Refresh", "Login"} : Count(c) <= 1
        /\ \A i \in 1..Len(log) : Rank(log[i].call) <= 3
        /\ \A i \in 1..Len(log) : \A j \in 1..Len(log) :
              i < j => (Rank(log[i].call) < Rank(log[j].call) /\ log[i].status # 0)
        /\ \A i \in 1..Len(log) :
              log[i].call = "Refresh"
              => (i = 2 /\ log[1].call = "Verify" /\ log[1].status # HTTP_OK)
        /\ \A i \in 1..Len(log) :
              log[i].call = "Login"
              => \/ i = 1 /\ file0.kind \in {"nofile", "garbage", "null"}
                 \/ /\ i = 3 /\ log[2].call = "Refresh"
                    /\ log[3].status = 0 => RefreshRefused)

\* __post_init__ went through all three requests and ended with a login.
C15_Witness ==
    /\ InInit /\ pc = "idle"
    /\ Len(log) = 3
    /\ log[1].call = "Verify" /\ log[2].call = "Refresh" /\ log[3].call = "Login"
    /\ log[2].status = HTTP_OK /\ log[3].status = HTTP_OK

\* C16: Login and Verify requests carry no headers. A Refresh request that is
\* out carries the header of the access token held, "<header_type> <access>"
\* (no header when none is held), and the refresh token held as its body; in
\* __post_init__ that access token is the file's, which Verify was sent.
C16_RefreshCarriesAccess ==
    /\ \A i \in 1..Len(log) : log[i].call \in {"Login", "Verify"} => log[i].auth = {}
    /\ pc = "refresh"
       => (/\ log[Len(log)].call = "Refresh"
           /\ log[Len(log)].auth
                = (IF access \in {None, ""} THEN {}
                   ELSE {<<"Authorization", header_type \o " " \o access>>})
           /\ log[Len(log)].sent = (IF refresh = None THEN "None" ELSE refresh))
    /\ (pc = "refresh" /\ InInit)
       => (/\ access = dict_get(json_loads(file0), "access")
           /\ log[1].sent = (IF access = None THEN "None" ELSE access)
           /\ log[1].status # HTTP_OK)

C16_Witness ==
    /\ InInit /\ pc = "refresh"
    /\ log[1].sent = "t1"
    /\ log[2].auth = {<<"Authorization", "Bearer t1">>}
    /\ log[2].sent = "t2"

\* C17 (as claimed): after any method has ended, a file that exists holds the
\* pair the client holds.
C17_Original ==
    (pc = "idle" /\ file # NoFile)
    => (file.kind = "object" /\ FileAccess = access /\ FileRefresh = refresh)

\* C17 for a client that holds both tokens: its file, if there is one, holds them.
C17_FullPairAgrees ==
    (pc = "idle" /\ file # NoFile /\ Truthy(access) /\ Truthy(refresh))
    => (file.kind = "object" /\ FileAccess = access /\ FileRefresh = refresh)

\* The step belongs to a public call of verify_token, get_headers or list.
ReadOnlyStep ==
    /\ op' \in {"verify_token", "get_headers", "list"}
    /\ calls' = calls + 1 \/ pc \in {"verify", "list"}

\* C18: no step of verify_token, get_headers or list changes access, refresh
\* or the file, whatever the response, a list() that raises included.
C18_ReadOnlyFrame ==
    [][ReadOnlyStep
       => (/\ access' = access /\ refresh' = refresh /\ file' = file
           /\ lastWrite' = NoFile)]_vars

\* list() raised on a non-200 response and the client's tokens and file remain.
C18_Witness ==
    /\ op = "list" /\ pc = "idle"
    /\ err = "Exception: Request not complete"
    /\ log[1].call = "List" /\ log[1].status = 401
    /\ Truthy(access) /\ Truthy(refresh)
    /\ FullPair(file)
====
